---- MODULE Spec2Model ----
(***************************************************************************)
(* Model of occo/infraprocessor/basic_infraprocessor.py: the four          *)
(* infrastructure-processor commands (CreateInfrastructure, CreateNode,    *)
(* DropNode, DropInfrastructure) and the BasicInfraProcessor factory       *)
(* methods.  Each execution unit p submits one command through a cri_*     *)
(* method and performs it.  Under the default process strategy the caller  *)
(* performs the commands one after another, so unit p starts once the      *)
(* units before it have ended; the collaborators' state carries over.      *)
(* A collaborator call and its return (or raise) is one atomic step.       *)
(***************************************************************************)
EXTENDS Integers, Sequences, FiniteSets, TLC

\* ---------------------------------------------------------------- bounds
NumProcs == 2
MaxPolls == 2
BatchSize == 3

Procs == 1..NumProcs

\* ------------------------------------------------------- dict primitives
\* Python dict item assignment d[k] = v (adds or overwrites)
Put(d, k, v) == (k :> v) @@ d

\* Python `k in d`
Has(d, k) == k \in DOMAIN d

EmptyDict == << >>

\* ------------------------------------------------------------ exceptions
NoExc == [type |-> "none"]

\* an Exception subclass raised by a collaborator call
CollaboratorError(step) == [type |-> "CollaboratorError", at |-> step]

\* d[k] on a dict without key k
KeyError(key) == [type |-> "KeyError", at |-> key]

\* the cancellation signal (a BaseException that is not an Exception)
KeyboardInterrupt(step) == [type |-> "KeyboardInterrupt", at |-> step]

\* another BaseException that is not an Exception
SystemExit(step) == [type |-> "SystemExit", at |-> step]

NodeCreationError(d, ex) ==
    [type |-> "NodeCreationError", instance_data |-> d, cause |-> ex]

\* isinstance(ex, Exception): what `except Exception` catches
IsException(ex) == ex.type \in {"CollaboratorError", "KeyError"}

\* what a collaborator call may raise
Raisable(step) ==
    {CollaboratorError(step), KeyboardInterrupt(step), SystemExit(step)}

\* ------------------------------------------------------- command results
NoResult == [status |-> "none"]
Returned(v) == [status |-> "returned", value |-> v]
Raised(ex) == [status |-> "raised", exc |-> ex]

\* --------------------------------------------------------------- inputs
InfraIds == {"i1"}

\* node descriptions a caller may hand to cri_create_node; the constructor
\* does not validate them, so descriptions lacking a key are included
NodeDescriptions ==
    { [user_id |-> "u1", infra_id |-> "i1", name |-> "n1"],
      [infra_id |-> "i1", name |-> "n1"],
      [user_id |-> "u1", name |-> "n1"] }

BackendIds == {"b1"}

\* a node created before this run, still known to the collaborators
PreExistingResolved == [node_id |-> 0, name |-> "n0", backend_id |-> "b1"]
PreExistingInstance ==
    [node_id |-> 0, user_id |-> "u1",
     node_description |-> [user_id |-> "u1", infra_id |-> "i1", name |-> "n0"],
     resolved_node_definition |-> PreExistingResolved,
     backend_id |-> "b1",
     instance_id |-> [vm |-> 0]]

\* instance data a caller may hand to cri_drop_node
DropTargets == {PreExistingInstance}

\* ------------------------------------------------- collaborator results
\* what resolve_node may return for (node_id, node_description): a concrete
\* definition, with or without a backend_id entry
ResolvedDefinitions(node_id, nd) ==
    { [node_id |-> node_id, name |-> nd.name, backend_id |-> b] :
          b \in BackendIds }
    \cup { [node_id |-> node_id, name |-> nd.name] }

\* the opaque identifier cloudhandler.create_node returns
CloudInstanceId(resolved_node_def) == [vm |-> resolved_node_def.node_id]

\* the record uds.register_started_node persists
StartedNode(infra_id, name, d) ==
    [infra_id |-> infra_id, name |-> name, instance_data |-> d]

VARIABLES
    cmd,                    \* cmd[p]: the Command object of unit p
    pc,                     \* pc[p]: position of unit p
    instance_data,          \* instance_data[p]: local dict of CreateNode.perform
    raised,                 \* raised[p]: exception raised inside the command body
    result,                 \* result[p]: how perform ended, as seen by the caller
    calls,                  \* calls[p]: collaborator calls made by unit p, in order
    polls,                  \* polls[p]: not-ready polls seen by wait_for_node
    uuid_count,             \* number of uuid.uuid4() values generated
    servicecomposer_infras, \* infrastructures known to the service composer
    servicecomposer_nodes,  \* node ids registered with the service composer
    cloudhandler_instances, \* instances alive at the cloud handler
    uds_nodes               \* started-node records persisted in the UDS

vars == <<cmd, pc, instance_data, raised, result, calls, polls, uuid_count,
          servicecomposer_infras, servicecomposer_nodes,
          cloudhandler_instances, uds_nodes>>

collaborators == <<servicecomposer_infras, servicecomposer_nodes,
                   cloudhandler_instances, uds_nodes>>

NoCommand == [op |-> "none"]

Init ==
    /\ cmd = [p \in Procs |-> NoCommand]
    /\ pc = [p \in Procs |-> "new"]
    /\ instance_data = [p \in Procs |-> EmptyDict]
    /\ raised = [p \in Procs |-> NoExc]
    /\ result = [p \in Procs |-> NoResult]
    /\ calls = [p \in Procs |-> << >>]
    /\ polls = [p \in Procs |-> 0]
    /\ uuid_count = 0
    /\ servicecomposer_infras = {}
    /\ servicecomposer_nodes = {PreExistingInstance.node_id}
    /\ cloudhandler_instances = {PreExistingInstance.instance_id}
    /\ uds_nodes = {StartedNode("i1", "n0", PreExistingInstance)}

\* --------------------------------------------------- step bookkeeping
\* record a collaborator call of unit p and how it ended:
\* "returned", "raised", or "running" while the call has not ended yet
Called(p, name, outcome) ==
    calls' = [calls EXCEPT
                 ![p] = Append(@, [call |-> name, outcome |-> outcome])]

\* record how the running call of unit p ended
Ended(p, outcome) ==
    calls' = [calls EXCEPT ![p][Len(calls[p])].outcome = outcome]

\* perform returns v to the caller
Return(p, v) ==
    /\ result' = [result EXCEPT ![p] = Returned(v)]
    /\ pc' = [pc EXCEPT ![p] = "done"]
    /\ UNCHANGED raised

\* Propagate with the exception wrapped the way CreateNode wraps failures
Propagate_wrapped(p, ex) ==
    /\ raised' = [raised EXCEPT ![p] = ex]
    /\ result' = [result EXCEPT ![p] = Raised(NodeCreationError(EmptyDict, ex))]
    /\ pc' = [pc EXCEPT ![p] = "done"]

\* exception ex leaves perform unhandled (commands without try/except)
Propagate(p, ex) ==
    /\ raised' = [raised EXCEPT ![p] = ex]
    /\ result' = [result EXCEPT ![p] = Raised(ex)]
    /\ pc' = [pc EXCEPT ![p] = "done"]

\* ------------------------------------------------ BasicInfraProcessor.cri_*
\* process_strategy='sequential': the caller submits and performs one
\* command at a time, so unit p starts once the earlier units have ended
Turn(p) == \A q \in Procs : q < p => pc[q] = "done"

cri_create_infrastructure(p) ==
    /\ pc[p] = "new"
    /\ Turn(p)
    /\ \E infra_id \in InfraIds :
         cmd' = [cmd EXCEPT ![p] = [op |-> "CreateInfrastructure",
                                    infra_id |-> infra_id]]
    /\ pc' = [pc EXCEPT ![p] = "perform"]
    /\ UNCHANGED <<instance_data, raised, result, calls, polls, uuid_count,
                   collaborators>>

cri_create_node(p) ==
    /\ pc[p] = "new"
    /\ Turn(p)
    /\ \E node_description \in NodeDescriptions :
         cmd' = [cmd EXCEPT ![p] = [op |-> "CreateNode",
                                    node_description |-> node_description]]
    /\ pc' = [pc EXCEPT ![p] = "perform"]
    /\ UNCHANGED <<instance_data, raised, result, calls, polls, uuid_count,
                   collaborators>>

cri_drop_node(p) ==
    /\ pc[p] = "new"
    /\ Turn(p)
    /\ \E node_id \in DropTargets :
         cmd' = [cmd EXCEPT ![p] = [op |-> "DropNode",
                                    instance_data |-> node_id]]
    /\ pc' = [pc EXCEPT ![p] = "perform"]
    /\ UNCHANGED <<instance_data, raised, result, calls, polls, uuid_count,
                   collaborators>>

cri_drop_infrastructure(p) ==
    /\ pc[p] = "new"
    /\ Turn(p)
    /\ \E infra_id \in InfraIds :
         cmd' = [cmd EXCEPT ![p] = [op |-> "DropInfrastructure",
                                    infra_id |-> infra_id]]
    /\ pc' = [pc EXCEPT ![p] = "perform"]
    /\ UNCHANGED <<instance_data, raised, result, calls, polls, uuid_count,
                   collaborators>>

\* ------------------------------------------- CreateInfrastructure.perform
CreateInfrastructure_perform(p) ==
    /\ pc[p] = "perform"
    /\ cmd[p].op = "CreateInfrastructure"
    /\ \/ /\ Called(p, "servicecomposer.create_infrastructure", "returned")
          /\ servicecomposer_infras' =
                 servicecomposer_infras \cup {cmd[p].infra_id}
          /\ Return(p, [infra |-> cmd[p].infra_id])
       \/ /\ Called(p, "servicecomposer.create_infrastructure", "raised")
          /\ \E ex \in Raisable("servicecomposer.create_infrastructure") :
               Propagate(p, ex)
          /\ UNCHANGED servicecomposer_infras
    /\ UNCHANGED <<cmd, instance_data, polls, uuid_count,
                   servicecomposer_nodes, cloudhandler_instances, uds_nodes>>

\* --------------------------------------------- DropInfrastructure.perform
\* DropInfrastructure_perform tearing down the member nodes as well
DropInfrastructure_perform_cascade(p) ==
    /\ pc[p] = "perform"
    /\ cmd[p].op = "DropInfrastructure"
    /\ \/ /\ Called(p, "servicecomposer.drop_infrastructure", "returned")
          /\ servicecomposer_infras' =
                 servicecomposer_infras \ {cmd[p].infra_id}
          /\ servicecomposer_nodes' = {}
          /\ cloudhandler_instances' = {}
          /\ uds_nodes' = {r \in uds_nodes : r.infra_id # cmd[p].infra_id}
          /\ Return(p, [none |-> TRUE])
       \/ /\ Called(p, "servicecomposer.drop_infrastructure", "raised")
          /\ \E ex \in Raisable("servicecomposer.drop_infrastructure") :
               Propagate(p, ex)
          /\ UNCHANGED <<servicecomposer_infras, servicecomposer_nodes,
                         cloudhandler_instances, uds_nodes>>
    /\ UNCHANGED <<cmd, instance_data, polls, uuid_count>>

DropInfrastructure_perform(p) ==
    /\ pc[p] = "perform"
    /\ cmd[p].op = "DropInfrastructure"
    /\ \/ /\ Called(p, "servicecomposer.drop_infrastructure", "returned")
          /\ servicecomposer_infras' =
                 servicecomposer_infras \ {cmd[p].infra_id}
          /\ Return(p, [none |-> TRUE])
       \/ /\ Called(p, "servicecomposer.drop_infrastructure", "raised")
          /\ \E ex \in Raisable("servicecomposer.drop_infrastructure") :
               Propagate(p, ex)
          /\ UNCHANGED servicecomposer_infras
    /\ UNCHANGED <<cmd, instance_data, polls, uuid_count,
                   servicecomposer_nodes, cloudhandler_instances, uds_nodes>>

\* ------------------------------------------------------- DropNode.perform
\* DropNodeNext with the two teardown calls exchanged
DropNodeNext_composer_first(step) ==
    CASE step = "perform" -> "servicecomposer.drop_node"
      [] step = "servicecomposer.drop_node" -> "cloudhandler.drop_node"
      [] step = "cloudhandler.drop_node" -> "return"

\* statement order of DropNode.perform: what follows the entry of perform
\* and what follows each statement that returned
DropNodeNext(step) ==
    CASE step = "perform" -> "cloudhandler.drop_node"
      [] step = "cloudhandler.drop_node" -> "servicecomposer.drop_node"
      [] step = "servicecomposer.drop_node" -> "return"

\* unit p is about to execute statement `step` of DropNode.perform
DropNodeAt(p, step) ==
    /\ cmd[p].op = "DropNode"
    /\ \/ pc[p] = "perform" /\ DropNodeNext("perform") = step
       \/ pc[p] = step

\* statement `step` of DropNode.perform returned
DropNodeProceed(p, step) ==
    IF DropNodeNext(step) = "return"
    THEN Return(p, [none |-> TRUE])
    ELSE /\ pc' = [pc EXCEPT ![p] = DropNodeNext(step)]
         /\ UNCHANGED <<raised, result>>

\* infraprocessor.cloudhandler.drop_node(self.instance_data)
DropNode_cloudhandler_drop_node(p) ==
    /\ DropNodeAt(p, "cloudhandler.drop_node")
    /\ \/ /\ Called(p, "cloudhandler.drop_node", "returned")
          /\ cloudhandler_instances' =
                 cloudhandler_instances \ {cmd[p].instance_data.instance_id}
          /\ DropNodeProceed(p, "cloudhandler.drop_node")
       \/ /\ Called(p, "cloudhandler.drop_node", "raised")
          /\ \E ex \in Raisable("cloudhandler.drop_node") : Propagate(p, ex)
          /\ UNCHANGED cloudhandler_instances
    /\ UNCHANGED <<cmd, instance_data, polls, uuid_count,
                   servicecomposer_infras, servicecomposer_nodes, uds_nodes>>

\* infraprocessor.servicecomposer.drop_node(self.instance_data)
DropNode_servicecomposer_drop_node(p) ==
    /\ DropNodeAt(p, "servicecomposer.drop_node")
    /\ \/ /\ Called(p, "servicecomposer.drop_node", "returned")
          /\ servicecomposer_nodes' =
                 servicecomposer_nodes \ {cmd[p].instance_data.node_id}
          /\ DropNodeProceed(p, "servicecomposer.drop_node")
       \/ /\ Called(p, "servicecomposer.drop_node", "raised")
          /\ \E ex \in Raisable("servicecomposer.drop_node") : Propagate(p, ex)
          /\ UNCHANGED servicecomposer_nodes
    /\ UNCHANGED <<cmd, instance_data, polls, uuid_count,
                   servicecomposer_infras, cloudhandler_instances, uds_nodes>>

\* ----------------------------------------------------- CreateNode.perform
\* InitialInstanceData with the later keys pre-populated with None
InitialInstanceData_prepopulated(node_id, node_description) ==
    Put(Put(Put(Put(EmptyDict, "node_id", node_id),
                "user_id", node_description.user_id),
            "node_description", node_description),
        "resolved_node_definition", [none |-> TRUE])

\* InitialInstanceData with a node_id fixed once and for all
InitialInstanceData_static_id(node_id, node_description) ==
    Put(Put(Put(EmptyDict, "node_id", 1),
            "user_id", node_description.user_id),
        "node_description", node_description)

\* InitialInstanceData taking user_id from the node's name
InitialInstanceData_user_is_name(node_id, node_description) ==
    Put(Put(Put(EmptyDict, "node_id", node_id),
            "user_id", node_description.name),
        "node_description", node_description)

\* the dict built at the head of CreateNode.perform
InitialInstanceData(node_id, node_description) ==
    Put(Put(Put(EmptyDict, "node_id", node_id),
            "user_id", node_description.user_id),
        "node_description", node_description)

\* instance_data['resolved_node_definition'] = resolved_node_def
StoreResolvedNodeDefinition(d, resolved_node_def) ==
    Put(d, "resolved_node_definition", resolved_node_def)

\* StoreBackendId writing under a wrong key
StoreBackendId_wrong_key(d, resolved_node_def) ==
    Put(d, "backend", resolved_node_def.backend_id)

\* StoreBackendId left out
StoreBackendId_missing(d, resolved_node_def) == d

\* instance_data['backend_id'] = resolved_node_def['backend_id']
StoreBackendId(d, resolved_node_def) ==
    Put(d, "backend_id", resolved_node_def.backend_id)

\* StoreInstanceId forgetting the assignment
StoreInstanceId_skipped(d, instance_id) == d

\* StoreInstanceId that also deletes the resolved definition
StoreInstanceId_drops_definition(d, instance_id) ==
    [k \in (DOMAIN d \cup {"instance_id"}) \ {"resolved_node_definition"} |->
        IF k = "instance_id" THEN instance_id ELSE d[k]]

\* instance_data['instance_id'] = instance_id
StoreInstanceId(d, instance_id) ==
    Put(d, "instance_id", instance_id)

\* perform_except without the try statement: nothing is wrapped
perform_except_unwrapped(d, ex) == ex

\* perform_except with a single `except BaseException` clause: everything,
\* the cancellation signal included, is wrapped
perform_except_wrap_all(d, ex) == NodeCreationError(d, ex)

\* the except clauses of CreateNode.perform: the exception that leaves
\* perform when ex was raised inside _perform_create with instance data d
perform_except(d, ex) ==
    IF ex.type = "KeyboardInterrupt" THEN ex
    ELSE IF IsException(ex) THEN NodeCreationError(d, ex)
    ELSE ex

\* CreateNodeNext with provisioning before composer registration
CreateNodeNext_skips_persist(step) ==
    CASE step = "perform" -> "resolve_node"
      [] step = "resolve_node" -> "servicecomposer.register_node"
      [] step = "servicecomposer.register_node" -> "cloudhandler.create_node"
      [] step = "cloudhandler.create_node" -> "ib.get.address"
      [] step = "uds.register_started_node" -> "ib.get.address"
      [] step = "ib.get.address" -> "ib.get.ip_address"
      [] step = "ib.get.ip_address" -> "wait_for_node"
      [] step = "wait_for_node" -> "return"

CreateNodeNext_create_before_register(step) ==
    CASE step = "perform" -> "resolve_node"
      [] step = "resolve_node" -> "cloudhandler.create_node"
      [] step = "cloudhandler.create_node" -> "servicecomposer.register_node"
      [] step = "servicecomposer.register_node" -> "uds.register_started_node"
      [] step = "uds.register_started_node" -> "ib.get.address"
      [] step = "ib.get.address" -> "ib.get.ip_address"
      [] step = "ib.get.ip_address" -> "wait_for_node"
      [] step = "wait_for_node" -> "return"

\* CreateNodeNext with the store record written before provisioning
CreateNodeNext_persist_before_create(step) ==
    CASE step = "perform" -> "resolve_node"
      [] step = "resolve_node" -> "servicecomposer.register_node"
      [] step = "servicecomposer.register_node" -> "uds.register_started_node"
      [] step = "uds.register_started_node" -> "cloudhandler.create_node"
      [] step = "cloudhandler.create_node" -> "ib.get.address"
      [] step = "ib.get.address" -> "ib.get.ip_address"
      [] step = "ib.get.ip_address" -> "wait_for_node"
      [] step = "wait_for_node" -> "return"

\* statement order of CreateNode: what follows the head of perform and what
\* follows each statement of _perform_create that returned
CreateNodeNext(step) ==
    CASE step = "perform" -> "resolve_node"
      [] step = "resolve_node" -> "servicecomposer.register_node"
      [] step = "servicecomposer.register_node" -> "cloudhandler.create_node"
      [] step = "cloudhandler.create_node" -> "uds.register_started_node"
      [] step = "uds.register_started_node" -> "ib.get.address"
      [] step = "ib.get.address" -> "ib.get.ip_address"
      [] step = "ib.get.ip_address" -> "wait_for_node"
      [] step = "wait_for_node" -> "return"

\* unit p is about to execute statement `step` of _perform_create
CreateNodeAt(p, step) ==
    /\ cmd[p].op = "CreateNode"
    /\ pc[p] = step

\* Proceed writing into a dict that executions at the same stage share
Proceed_shared(p, d, step) ==
    /\ instance_data' =
         [q \in DOMAIN instance_data |->
             IF q = p \/ DOMAIN instance_data[q] = DOMAIN d
             THEN d ELSE instance_data[q]]
    /\ IF CreateNodeNext(step) = "return"
       THEN Return(p, d)
       ELSE /\ pc' = [pc EXCEPT ![p] = CreateNodeNext(step)]
            /\ UNCHANGED <<raised, result>>

\* statement `step` of _perform_create returned, leaving instance data d
Proceed(p, d, step) ==
    /\ instance_data' = [instance_data EXCEPT ![p] = d]
    /\ IF CreateNodeNext(step) = "return"
       THEN Return(p, d)
       ELSE /\ pc' = [pc EXCEPT ![p] = CreateNodeNext(step)]
            /\ UNCHANGED <<raised, result>>

\* Abort with a compensating teardown of what the execution created
Abort_rollback(p, d, ex) ==
    /\ instance_data' = [instance_data EXCEPT ![p] = d]
    /\ raised' = [raised EXCEPT ![p] = ex]
    /\ result' = [result EXCEPT ![p] = Raised(perform_except(d, ex))]
    /\ pc' = [pc EXCEPT ![p] = "done"]
    /\ cloudhandler_instances' =
           cloudhandler_instances
               \ (IF Has(d, "instance_id") THEN {d.instance_id} ELSE {})
    /\ servicecomposer_nodes' = servicecomposer_nodes \ {d.node_id}
    /\ UNCHANGED <<servicecomposer_infras, uds_nodes>>

\* a statement of _perform_create raised ex, leaving instance data d:
\* the remaining statements are skipped and perform's try statement decides
\* what reaches the caller; the except clauses call no collaborator
Abort(p, d, ex) ==
    /\ instance_data' = [instance_data EXCEPT ![p] = d]
    /\ raised' = [raised EXCEPT ![p] = ex]
    /\ result' = [result EXCEPT ![p] = Raised(perform_except(d, ex))]
    /\ pc' = [pc EXCEPT ![p] = "done"]
    /\ UNCHANGED collaborators

\* head of perform: generate the node id and assemble the instance data
\* (outside the try statement); an interrupt may arrive here as anywhere
CreateNode_perform(p) ==
    /\ pc[p] = "perform"
    /\ cmd[p].op = "CreateNode"
    /\ uuid_count' = uuid_count + 1
    /\ LET node_description == cmd[p].node_description
           node_id == uuid_count + 1
       IN  \/ /\ Has(node_description, "user_id")
              /\ instance_data' =
                     [instance_data EXCEPT
                         ![p] = InitialInstanceData(node_id, node_description)]
              /\ pc' = [pc EXCEPT ![p] = CreateNodeNext("perform")]
              /\ UNCHANGED <<raised, result>>
           \/ /\ ~Has(node_description, "user_id")
              /\ Propagate(p, KeyError("user_id"))
              /\ UNCHANGED instance_data
           \/ /\ Propagate(p, KeyboardInterrupt("perform"))
              /\ UNCHANGED instance_data
    /\ UNCHANGED <<cmd, calls, polls, collaborators>>

\* resolved_node_def = resolve_node(ib, node_id, node_description) and the
\* two assignments that store its result
resolve_node(p) ==
    /\ CreateNodeAt(p, "resolve_node")
    /\ \/ \E resolved_node_def \in
              ResolvedDefinitions(instance_data[p].node_id,
                                  cmd[p].node_description) :
            /\ Called(p, "resolve_node", "returned")
            /\ LET d == StoreResolvedNodeDefinition(instance_data[p],
                                                    resolved_node_def)
               IN  IF Has(resolved_node_def, "backend_id")
                   THEN /\ Proceed(p, StoreBackendId(d, resolved_node_def),
                                   "resolve_node")
                        /\ UNCHANGED collaborators
                   ELSE Abort(p, d, KeyError("backend_id"))
       \/ \E ex \in Raisable("resolve_node") :
            /\ Called(p, "resolve_node", "raised")
            /\ Abort(p, instance_data[p], ex)
    /\ UNCHANGED <<cmd, polls, uuid_count>>

\* infraprocessor.servicecomposer.register_node(resolved_node_def)
register_node(p) ==
    /\ CreateNodeAt(p, "servicecomposer.register_node")
    /\ LET resolved_node_def == instance_data[p].resolved_node_definition
       IN  \/ /\ Called(p, "servicecomposer.register_node", "returned")
              /\ servicecomposer_nodes' =
                     servicecomposer_nodes \cup {resolved_node_def.node_id}
              /\ UNCHANGED <<servicecomposer_infras, cloudhandler_instances,
                             uds_nodes>>
              /\ Proceed(p, instance_data[p], "servicecomposer.register_node")
           \/ \E ex \in Raisable("servicecomposer.register_node") :
                /\ Called(p, "servicecomposer.register_node", "raised")
                /\ Abort(p, instance_data[p], ex)
    /\ UNCHANGED <<cmd, polls, uuid_count>>

\* instance_id = infraprocessor.cloudhandler.create_node(resolved_node_def)
\* and the assignment that stores it
create_node(p) ==
    /\ CreateNodeAt(p, "cloudhandler.create_node")
    /\ LET resolved_node_def == instance_data[p].resolved_node_definition
           instance_id == CloudInstanceId(resolved_node_def)
       IN  \/ /\ Called(p, "cloudhandler.create_node", "returned")
              /\ cloudhandler_instances' =
                     cloudhandler_instances \cup {instance_id}
              /\ UNCHANGED <<servicecomposer_infras, servicecomposer_nodes,
                             uds_nodes>>
              /\ Proceed(p, StoreInstanceId(instance_data[p], instance_id),
                         "cloudhandler.create_node")
           \/ \E ex \in Raisable("cloudhandler.create_node") :
                /\ Called(p, "cloudhandler.create_node", "raised")
                /\ Abort(p, instance_data[p], ex)
    /\ UNCHANGED <<cmd, polls, uuid_count>>

\* infraprocessor.uds.register_started_node(node_description['infra_id'],
\*     node_description['name'], instance_data)
register_started_node(p) ==
    /\ CreateNodeAt(p, "uds.register_started_node")
    /\ LET node_description == cmd[p].node_description
       IN  \/ /\ ~Has(node_description, "infra_id")
              /\ Abort(p, instance_data[p], KeyError("infra_id"))
              /\ UNCHANGED calls
           \/ /\ Has(node_description, "infra_id")
              /\ Called(p, "uds.register_started_node", "returned")
              /\ uds_nodes' =
                     uds_nodes \cup {StartedNode(node_description.infra_id,
                                                 node_description.name,
                                                 instance_data[p])}
              /\ UNCHANGED <<servicecomposer_infras, servicecomposer_nodes,
                             cloudhandler_instances>>
              /\ Proceed(p, instance_data[p], "uds.register_started_node")
           \/ /\ Has(node_description, "infra_id")
              /\ \E ex \in Raisable("uds.register_started_node") :
                   /\ Called(p, "uds.register_started_node", "raised")
                   /\ Abort(p, instance_data[p], ex)
    /\ UNCHANGED <<cmd, polls, uuid_count>>

\* a read-only broker lookup ib.get(key, instance_data) made at `step`
ib_get(p, step) ==
    /\ CreateNodeAt(p, step)
    /\ \/ /\ Called(p, step, "returned")
          /\ Proceed(p, instance_data[p], step)
          /\ UNCHANGED collaborators
       \/ \E ex \in Raisable(step) :
            /\ Called(p, step, "raised")
            /\ Abort(p, instance_data[p], ex)
    /\ UNCHANGED <<cmd, polls, uuid_count>>

\* ib.get('node.resource.address', instance_data)
ib_get_address(p) == ib_get(p, "ib.get.address")

\* ib.get('node.resource.ip_address', instance_data)
ib_get_ip_address(p) == ib_get(p, "ib.get.ip_address")

\* synch.wait_for_node(instance_data, infraprocessor.poll_delay) is entered
wait_for_node(p) ==
    /\ CreateNodeAt(p, "wait_for_node")
    /\ Called(p, "wait_for_node", "running")
    /\ pc' = [pc EXCEPT ![p] = "polling"]
    /\ UNCHANGED <<cmd, instance_data, raised, result, polls, uuid_count,
                   collaborators>>

\* wait_for_node_poll that looks at the status only in its first iteration
\* and merely sleeps in the later ones
wait_for_node_poll_misses(p) ==
    /\ cmd[p].op = "CreateNode"
    /\ pc[p] = "polling"
    /\ \/ /\ polls[p] = 0
          /\ Ended(p, "returned")
          /\ Proceed(p, instance_data[p], "wait_for_node")
          /\ UNCHANGED <<polls, collaborators>>
       \/ /\ polls[p] < MaxPolls
          /\ polls' = [polls EXCEPT ![p] = @ + 1]
          /\ UNCHANGED <<instance_data, raised, result, pc, calls,
                         collaborators>>
       \/ \E ex \in Raisable("wait_for_node") :
            /\ Ended(p, "raised")
            /\ Abort(p, instance_data[p], ex)
            /\ UNCHANGED polls
    /\ UNCHANGED <<cmd, uuid_count>>

\* wait_for_node_poll giving up once the node has been polled MaxPolls times
wait_for_node_poll_timeout(p) ==
    /\ cmd[p].op = "CreateNode"
    /\ pc[p] = "polling"
    /\ \/ /\ Ended(p, "returned")
          /\ Proceed(p, instance_data[p], "wait_for_node")
          /\ UNCHANGED <<polls, collaborators>>
       \/ /\ polls[p] < MaxPolls
          /\ polls' = [polls EXCEPT ![p] = @ + 1]
          /\ UNCHANGED <<instance_data, raised, result, pc, calls,
                         collaborators>>
       \/ /\ polls[p] = MaxPolls
          /\ Ended(p, "raised")
          /\ Abort(p, instance_data[p], CollaboratorError("timeout"))
          /\ UNCHANGED polls
       \/ \E ex \in Raisable("wait_for_node") :
            /\ Ended(p, "raised")
            /\ Abort(p, instance_data[p], ex)
            /\ UNCHANGED polls
    /\ UNCHANGED <<cmd, uuid_count>>

\* one iteration of the readiness poll: the broker reports the node ready
\* (wait_for_node returns), or not ready (sleep poll_delay and poll again),
\* or the status query or the sleep raises
wait_for_node_poll(p) ==
    /\ cmd[p].op = "CreateNode"
    /\ pc[p] = "polling"
    /\ \/ /\ Ended(p, "returned")
          /\ Proceed(p, instance_data[p], "wait_for_node")
          /\ UNCHANGED <<polls, collaborators>>
       \/ /\ polls[p] < MaxPolls
          /\ polls' = [polls EXCEPT ![p] = @ + 1]
          /\ UNCHANGED <<instance_data, raised, result, pc, calls,
                         collaborators>>
       \/ \E ex \in Raisable("wait_for_node") :
            /\ Ended(p, "raised")
            /\ Abort(p, instance_data[p], ex)
            /\ UNCHANGED polls
    /\ UNCHANGED <<cmd, uuid_count>>

\* ------------------------------------------------------------ behaviours
Next ==
    \E p \in Procs :
        \/ cri_create_infrastructure(p)
        \/ cri_create_node(p)
        \/ cri_drop_node(p)
        \/ cri_drop_infrastructure(p)
        \/ CreateInfrastructure_perform(p)
        \/ CreateNode_perform(p)
        \/ resolve_node(p)
        \/ register_node(p)
        \/ create_node(p)
        \/ register_started_node(p)
        \/ ib_get_address(p)
        \/ ib_get_ip_address(p)
        \/ wait_for_node(p)
        \/ wait_for_node_poll(p)
        \/ DropNode_cloudhandler_drop_node(p)
        \/ DropNode_servicecomposer_drop_node(p)
        \/ DropInfrastructure_perform(p)

Spec == Init /\ [][Next]_vars

\* ------------------------------------------------- sequential strategy
\* positions of a batch handed to the strategy
Batch == 1..BatchSize

InitSeq ==
    /\ cmd = [p \in Batch |-> NoCommand]
    /\ pc = [p \in Batch |-> "new"]
    /\ instance_data = [p \in Batch |-> EmptyDict]
    /\ raised = [p \in Batch |-> NoExc]
    /\ result = [p \in Batch |-> NoResult]
    /\ calls = [p \in Batch |-> << >>]
    /\ polls = [p \in Batch |-> 0]
    /\ uuid_count = 0
    /\ servicecomposer_infras = {}
    /\ servicecomposer_nodes = {PreExistingInstance.node_id}
    /\ cloudhandler_instances = {PreExistingInstance.instance_id}
    /\ uds_nodes = {StartedNode("i1", "n0", PreExistingInstance)}

\* SequentialStrategy_next that goes on with the batch after a failure
SequentialStrategy_next_keeps_going(p) ==
    /\ \A q \in DOMAIN pc : q < p => pc[q] = "done"
    /\ \/ cri_create_infrastructure(p)
       \/ cri_create_node(p)
       \/ cri_drop_node(p)
       \/ cri_drop_infrastructure(p)

\* the strategy takes up the command at position p of the batch: in
\* submission order, and only while every earlier command has returned (the
\* first failure leaves the loop and reaches the caller)
SequentialStrategy_next(p) ==
    /\ \A q \in DOMAIN pc : q < p => result[q].status = "returned"
    /\ \/ cri_create_infrastructure(p)
       \/ cri_create_node(p)
       \/ cri_drop_node(p)
       \/ cri_drop_infrastructure(p)

NextSeq ==
    \E p \in Batch :
        \/ SequentialStrategy_next(p)
        \/ CreateInfrastructure_perform(p)
        \/ CreateNode_perform(p)
        \/ resolve_node(p)
        \/ register_node(p)
        \/ create_node(p)
        \/ register_started_node(p)
        \/ ib_get_address(p)
        \/ ib_get_ip_address(p)
        \/ wait_for_node(p)
        \/ wait_for_node_poll(p)
        \/ DropNode_cloudhandler_drop_node(p)
        \/ DropNode_servicecomposer_drop_node(p)
        \/ DropInfrastructure_perform(p)

SpecSeq == InitSeq /\ [][NextSeq]_vars

\* --------------------------------------------------- parallel strategy
\* node descriptions with every required key
WellFormedNodeDescriptions ==
    {nd \in NodeDescriptions :
        {"user_id", "infra_id", "name"} \subseteq DOMAIN nd}

\* the commands the cri_* methods build for a batch
BatchCommands ==
    {[op |-> "CreateInfrastructure", infra_id |-> i] : i \in InfraIds}
    \cup {[op |-> "DropInfrastructure", infra_id |-> i] : i \in InfraIds}
    \cup {[op |-> "DropNode", instance_data |-> d] : d \in DropTargets}
    \cup {[op |-> "CreateNode", node_description |-> nd] :
              nd \in WellFormedNodeDescriptions}

\* no command of the batch undoes or presupposes another one's effect
Independent(b) ==
    \A p, q \in DOMAIN b :
        ~ /\ b[p].op = "CreateInfrastructure"
          /\ b[q].op = "DropInfrastructure"
          /\ b[p].infra_id = b[q].infra_id

\* a batch of independent commands has been built; every command is handed
\* to a worker of its own
InitPar ==
    /\ cmd \in {b \in [Procs -> BatchCommands] : Independent(b)}
    /\ pc = [p \in Procs |-> "perform"]
    /\ instance_data = [p \in Procs |-> EmptyDict]
    /\ raised = [p \in Procs |-> NoExc]
    /\ result = [p \in Procs |-> NoResult]
    /\ calls = [p \in Procs |-> << >>]
    /\ polls = [p \in Procs |-> 0]
    /\ uuid_count = 0
    /\ servicecomposer_infras = {}
    /\ servicecomposer_nodes = {PreExistingInstance.node_id}
    /\ cloudhandler_instances = {PreExistingInstance.instance_id}
    /\ uds_nodes = {StartedNode("i1", "n0", PreExistingInstance)}

\* the step A in an execution where no collaborator call fails and no
\* cancellation signal is raised
Succeeds(A) == A /\ \A q \in DOMAIN pc : raised'[q] = NoExc

\* the steps of the worker that performs the command of unit p
Worker(p) ==
    \/ Succeeds(CreateInfrastructure_perform(p))
    \/ Succeeds(CreateNode_perform(p))
    \/ Succeeds(resolve_node(p))
    \/ Succeeds(register_node(p))
    \/ Succeeds(create_node(p))
    \/ Succeeds(register_started_node(p))
    \/ Succeeds(ib_get_address(p))
    \/ Succeeds(ib_get_ip_address(p))
    \/ Succeeds(wait_for_node(p))
    \/ Succeeds(wait_for_node_poll(p))
    \/ Succeeds(DropNode_cloudhandler_drop_node(p))
    \/ Succeeds(DropNode_servicecomposer_drop_node(p))
    \/ Succeeds(DropInfrastructure_perform(p))

NextPar == \E p \in Procs : Worker(p)

\* the workers run concurrently and each of them keeps being scheduled
SpecPar ==
    /\ InitPar
    /\ [][NextPar]_vars
    /\ \A p \in Procs : WF_vars(Worker(p))

\* ------------------------------------------------- property vocabulary
Range(f) == {f[i] : i \in DOMAIN f}

IsPrefix(s, t) == Len(s) <= Len(t) /\ \A i \in 1..Len(s) : s[i] = t[i]

\* names of the collaborator calls unit p has made, in order
CallNames(p) == [i \in 1..Len(calls[p]) |-> calls[p][i].call]

\* unit p made call `name` and it returned
CallReturned(p, name) ==
    \E i \in 1..Len(calls[p]) :
        calls[p][i].call = name /\ calls[p][i].outcome = "returned"

\* the last call unit p made is `name` and it raised
LastCallRaised(p, name) ==
    /\ Len(calls[p]) > 0
    /\ calls[p][Len(calls[p])].call = name
    /\ calls[p][Len(calls[p])].outcome = "raised"

CreateNodeProcs == {p \in Procs : cmd[p].op = "CreateNode"}
DropNodeProcs == {p \in Procs : cmd[p].op = "DropNode"}

\* perform of unit p ended with a NodeCreationError
EndedWithNodeCreationError(p) ==
    /\ result[p].status = "raised"
    /\ result[p].exc.type = "NodeCreationError"

ProtocolCalls ==
    <<"resolve_node", "servicecomposer.register_node",
      "cloudhandler.create_node", "uds.register_started_node",
      "wait_for_node">>

InProtocol(name) == name \in Range(ProtocolCalls)

InitialKeys == {"node_id", "user_id", "node_description"}

\* the keys the statements completed so far have stored, read off the call
\* log and the exception in flight
AccumulatedKeys(p) ==
    InitialKeys
    \cup (IF CallReturned(p, "resolve_node")
          THEN {"resolved_node_definition"} ELSE {})
    \cup (IF CallReturned(p, "resolve_node")
             /\ raised[p] # KeyError("backend_id")
          THEN {"backend_id"} ELSE {})
    \cup (IF CallReturned(p, "cloudhandler.create_node")
          THEN {"instance_id"} ELSE {})

\* C1: in every CreateNode execution the calls resolve_node,
\* servicecomposer.register_node, cloudhandler.create_node,
\* uds.register_started_node, wait_for_node happen in exactly this order,
\* each at most once, and a call is made only after every earlier call of
\* the execution has returned.
C1_ProtocolOrder ==
    \A p \in CreateNodeProcs :
        /\ IsPrefix(SelectSeq(CallNames(p), InProtocol), ProtocolCalls)
        /\ \A i \in 1..(Len(calls[p]) - 1) : calls[p][i].outcome = "returned"

C1_Witness ==
    \E p \in CreateNodeProcs :
        /\ result[p].status = "returned"
        /\ SelectSeq(CallNames(p), InProtocol) = ProtocolCalls

\* C2 as stated: every failure other than the cancellation signal, raised at
\* any step of CreateNode.perform (the initial assembly included), ends
\* perform with a NodeCreationError carrying the accumulated InstanceData
\* and the original cause.
C2_Original ==
    \A p \in CreateNodeProcs :
        (raised[p] # NoExc /\ raised[p].type # "KeyboardInterrupt")
            => result[p] = Raised(NodeCreationError(instance_data[p],
                                                    raised[p]))

\* C2 amended: every failure that is an Exception raised by a statement of
\* _perform_create ends perform with a NodeCreationError carrying exactly
\* the InstanceData accumulated up to the failure and the original cause; a
\* failure of the initial assembly leaves perform as the original error.
C2_WrapsFailures ==
    \A p \in CreateNodeProcs :
        /\ (raised[p] # NoExc /\ IsException(raised[p])
                /\ Has(instance_data[p], "node_id"))
              => /\ EndedWithNodeCreationError(p)
                 /\ result[p].exc.cause = raised[p]
                 /\ result[p].exc.instance_data = instance_data[p]
                 /\ DOMAIN result[p].exc.instance_data = AccumulatedKeys(p)
        /\ (raised[p] # NoExc /\ ~Has(instance_data[p], "node_id"))
              => result[p] = Raised(raised[p])

C2_Witness ==
    \E p \in CreateNodeProcs :
        /\ EndedWithNodeCreationError(p)
        /\ result[p].exc.cause = CollaboratorError("uds.register_started_node")
        /\ Has(result[p].exc.instance_data, "instance_id")

\* C3: a KeyboardInterrupt raised at any step of CreateNode.perform, the
\* readiness poll included, leaves perform as that same KeyboardInterrupt,
\* never as a NodeCreationError and never as a return.
C3_CancellationPropagates ==
    \A p \in CreateNodeProcs :
        (raised[p] # NoExc /\ raised[p].type = "KeyboardInterrupt")
            => result[p] = Raised(raised[p])

C3_Witness ==
    \E p \in CreateNodeProcs :
        /\ raised[p] = KeyboardInterrupt("wait_for_node")
        /\ polls[p] > 0
        /\ result[p].status = "raised"

\* C4: in every DropNode execution cloudhandler.drop_node is called first
\* and servicecomposer.drop_node only after it has returned.
C4_DropOrder ==
    \A p \in DropNodeProcs :
        /\ IsPrefix(CallNames(p),
                    <<"cloudhandler.drop_node", "servicecomposer.drop_node">>)
        /\ Len(calls[p]) = 2 => calls[p][1].outcome = "returned"

C4_Witness ==
    \E p \in DropNodeProcs :
        /\ result[p].status = "returned"
        /\ CallNames(p) =
               <<"cloudhandler.drop_node", "servicecomposer.drop_node">>

C6_ProvisionFailure ==
    \A p \in CreateNodeProcs :
        LastCallRaised(p, "cloudhandler.create_node")
            => /\ CallReturned(p, "resolve_node")
               /\ "uds.register_started_node" \notin Range(CallNames(p))
               /\ IsException(raised[p]) => EndedWithNodeCreationError(p)
               /\ EndedWithNodeCreationError(p)
                      => /\ Has(result[p].exc.instance_data,
                                "resolved_node_definition")
                         /\ Has(result[p].exc.instance_data, "backend_id")
                         /\ ~Has(result[p].exc.instance_data, "instance_id")

C6_Witness ==
    \E p \in CreateNodeProcs :
        /\ LastCallRaised(p, "cloudhandler.create_node")
        /\ EndedWithNodeCreationError(p)
        /\ result[p].exc.cause = CollaboratorError("cloudhandler.create_node")

\* the InstanceData an observer of unit p can see: the local dict and, once
\* perform ended with a NodeCreationError, the dict the error carries
VisibleInstanceData(p) ==
    {instance_data[p]}
    \cup (IF EndedWithNodeCreationError(p)
          THEN {result[p].exc.instance_data} ELSE {})

\* C7 as stated: backend_id is present on InstanceData exactly when the
\* resolver call has returned, whatever definition it returned.
C7_Original ==
    \A p \in CreateNodeProcs :
        \A d \in VisibleInstanceData(p) :
            Has(d, "backend_id") <=> CallReturned(p, "resolve_node")

\* C7 amended: backend_id is present on InstanceData exactly when the
\* resolver call has returned a definition that has a backend_id entry, and
\* it is then that entry; when the returned definition lacks backend_id,
\* perform ends with a NodeCreationError caused by the KeyError, whose
\* InstanceData has resolved_node_definition but no backend_id.
C7_BackendIdPresence ==
    \A p \in CreateNodeProcs :
        \A d \in VisibleInstanceData(p) :
            /\ Has(d, "backend_id")
                 <=> /\ CallReturned(p, "resolve_node")
                     /\ Has(d, "resolved_node_definition")
                     /\ Has(d.resolved_node_definition, "backend_id")
            /\ Has(d, "backend_id")
                 => d.backend_id = d.resolved_node_definition.backend_id
            /\ (CallReturned(p, "resolve_node") /\ ~Has(d, "backend_id"))
                 => /\ Has(d, "resolved_node_definition")
                    /\ result[p] =
                         Raised(NodeCreationError(d, KeyError("backend_id")))

C7_Witness ==
    \E p \in CreateNodeProcs :
        /\ CallReturned(p, "resolve_node")
        /\ EndedWithNodeCreationError(p)
        /\ result[p].exc.cause = KeyError("backend_id")
        /\ ~Has(result[p].exc.instance_data, "backend_id")

\* C8: during a CreateNode execution a key of InstanceData, once set, is
\* never removed and never changes its value.
C8_FieldsOnlyGrow ==
    [][\A p \in Procs :
          \A k \in DOMAIN instance_data[p] :
              /\ Has(instance_data'[p], k)
              /\ instance_data'[p][k] = instance_data[p][k]]_vars

C8_Witness ==
    \E p \in CreateNodeProcs :
        /\ result[p].status = "returned"
        /\ DOMAIN instance_data[p] =
               InitialKeys \cup {"resolved_node_definition", "backend_id",
                                 "instance_id"}

\* C9: whenever InstanceData has instance_id it has resolved_node_definition
\* and backend_id.
C9_ResolutionBeforeProvisioning ==
    \A p \in CreateNodeProcs :
        \A d \in VisibleInstanceData(p) :
            Has(d, "instance_id")
                => Has(d, "resolved_node_definition") /\ Has(d, "backend_id")

C9_Witness ==
    \E p \in CreateNodeProcs :
        /\ pc[p] = "uds.register_started_node"
        /\ Has(instance_data[p], "instance_id")

TeardownCalls ==
    {"cloudhandler.drop_node", "servicecomposer.drop_node",
     "servicecomposer.drop_infrastructure"}

\* C10: when a step of CreateNode fails, the execution is over: the failing
\* step is the last one made, no teardown call has been made, and the
\* composer registration, the instance and the store record of the steps
\* that completed are still in place.
C10_NoRollback ==
    \A p \in CreateNodeProcs :
        raised[p] # NoExc
            => /\ pc[p] = "done"
               /\ result[p].status = "raised"
               /\ \A i \in 1..Len(calls[p]) :
                      /\ calls[p][i].call \notin TeardownCalls
                      /\ calls[p][i].outcome = "raised" => i = Len(calls[p])
               /\ (raised[p].type # "KeyError" /\ raised[p].at # "perform")
                      => LastCallRaised(p, raised[p].at)
               /\ CallReturned(p, "servicecomposer.register_node")
                      => instance_data[p].node_id \in servicecomposer_nodes
               /\ CallReturned(p, "cloudhandler.create_node")
                      => instance_data[p].instance_id
                             \in cloudhandler_instances
               /\ CallReturned(p, "uds.register_started_node")
                      => \E r \in uds_nodes :
                             r.instance_data = instance_data[p]

C10_Witness ==
    \E p \in CreateNodeProcs :
        /\ raised[p] = CollaboratorError("wait_for_node")
        /\ pc[p] = "done"
        /\ instance_data[p].instance_id \in cloudhandler_instances
        /\ \E r \in uds_nodes : r.instance_data = instance_data[p]


\* the units whose command has no exception handling of its own
UnwrappedProcs ==
    {p \in DOMAIN cmd :
        cmd[p].op \in {"CreateInfrastructure", "DropNode",
                       "DropInfrastructure"}}

\* C11: when a collaborator call of CreateInfrastructure, DropNode or
\* DropInfrastructure raises, perform ends by raising that very exception:
\* it is not wrapped, not swallowed, and perform does not return.
C11_FailuresPropagateRaw ==
    \A p \in UnwrappedProcs :
        \A i \in 1..Len(calls[p]) :
            calls[p][i].outcome = "raised"
                => /\ i = Len(calls[p])
                   /\ pc[p] = "done"
                   /\ result[p].status = "raised"
                   /\ result[p].exc \in Raisable(calls[p][i].call)
                   /\ result[p].exc = raised[p]

C11_Witness ==
    \E p \in UnwrappedProcs :
        /\ cmd[p].op = "DropNode"
        /\ Len(calls[p]) = 2
        /\ result[p] = Raised(CollaboratorError("servicecomposer.drop_node"))


\* the side effect of the returned command of unit q is observable at the
\* collaborators
EffectApplied(q) ==
    CASE cmd[q].op = "CreateInfrastructure" ->
             cmd[q].infra_id \in servicecomposer_infras
      [] cmd[q].op = "DropInfrastructure" ->
             cmd[q].infra_id \notin servicecomposer_infras
      [] cmd[q].op = "DropNode" ->
             /\ cmd[q].instance_data.instance_id \notin cloudhandler_instances
             /\ cmd[q].instance_data.node_id \notin servicecomposer_nodes
      [] cmd[q].op = "CreateNode" ->
             /\ instance_data[q].node_id \in servicecomposer_nodes
             /\ instance_data[q].instance_id \in cloudhandler_instances
             /\ \E r \in uds_nodes : r.instance_data = instance_data[q]

\* C12: under the sequential strategy a command is taken up only after all
\* earlier commands of the batch have returned; once a command has failed
\* no later command is ever submitted or performed, the command before it
\* has its side effect applied, and the failure is the one failure of the
\* batch, standing as raised.
C12_SequentialFailFast ==
    \A p \in DOMAIN pc :
        /\ pc[p] # "new" => \A q \in 1..(p - 1) : result[q].status = "returned"
        /\ result[p].status = "raised"
             => /\ \A q \in DOMAIN pc :
                      q > p => /\ pc[q] = "new"
                               /\ cmd[q] = NoCommand
                               /\ calls[q] = << >>
                /\ p > 1 => EffectApplied(p - 1)
                /\ raised[p] # NoExc
                /\ \A q \in DOMAIN pc : result[q].status = "raised" => q = p

C12_Witness ==
    /\ BatchSize >= 3
    /\ result[1].status = "returned"
    /\ EffectApplied(1)
    /\ result[2].status = "raised"
    /\ pc[3] = "new"


\* ---------------------------------------------------------------- C13
AllCompleted == \A p \in DOMAIN result : result[p].status = "returned"

\* C13: under the parallel strategy, when every command of a batch of
\* independent commands succeeds in isolation, every interleaving ends with
\* all of them completed and the effect of every one of them observable at
\* the collaborators.
C13_ParallelAllComplete ==
    <>[](AllCompleted /\ \A p \in DOMAIN cmd : EffectApplied(p))

\* a batch that holds a DropNode and a CreateNode has completed and the
\* effects of both are in place
C13_Witness ==
    /\ AllCompleted
    /\ \E p, q \in DOMAIN cmd :
        /\ p < q
        /\ cmd[p].op = "DropNode"
        /\ cmd[q].op = "CreateNode"
        /\ Len(calls[p]) = 2
        /\ EffectApplied(p) /\ EffectApplied(q)


\* ---------------------------------------------------------------- C14
\* the values held by the instance data of unit p stem from p's own
\* execution: the definition was resolved for p's node_id, backend_id is
\* that definition's, instance_id is the instance created from it
OwnValues(p) ==
    LET d == instance_data[p] IN
    /\ Has(d, "resolved_node_definition")
         => d.resolved_node_definition.node_id = d.node_id
    /\ Has(d, "backend_id")
         => d.backend_id = d.resolved_node_definition.backend_id
    /\ Has(d, "instance_id")
         => d.instance_id = CloudInstanceId(d.resolved_node_definition)

\* unit q took a step
Stepped(q) == pc'[q] # pc[q] \/ polls'[q] # polls[q]

\* C14: under every interleaving of concurrent CreateNode executions, each
\* instance data holds the node_id, resolved definition, backend_id and
\* instance_id of its own execution and never a value of another one: the
\* node_ids differ pairwise, an instance data changes only in a step of its
\* own execution, and its node_id never changes once set.
C14_NoSharedInstanceData ==
    /\ [](\A p \in CreateNodeProcs :
            /\ OwnValues(p)
            /\ \A q \in CreateNodeProcs :
                 (p # q /\ Has(instance_data[p], "node_id")
                        /\ Has(instance_data[q], "node_id"))
                    => instance_data[p].node_id # instance_data[q].node_id)
    /\ [][\A q \in DOMAIN instance_data :
            /\ instance_data'[q] # instance_data[q] => Stepped(q)
            /\ Has(instance_data[q], "node_id")
                 => instance_data'[q].node_id = instance_data[q].node_id]_vars

\* two CreateNode executions are in flight at once, both past
\* cloudhandler.create_node and neither finished
C14_Witness ==
    \E p, q \in CreateNodeProcs :
        /\ p # q
        /\ pc[p] = "polling" /\ pc[q] = "polling"
        /\ Has(instance_data[p], "instance_id")
        /\ Has(instance_data[q], "instance_id")


\* ---------------------------------------------------------------- C15
\* C15: the instance data a successful CreateNode returns carries user_id
\* equal to the node description's user_id, backend_id equal to the resolved
\* definition's backend_id, instance_id equal to what cloudhandler.create_node
\* returned for that definition, and a node_id generated by this run (node
\* ids are drawn from a sort of their own, apart from user ids, infra ids
\* and node names).
C15_ReturnedInstanceData ==
    \A p \in CreateNodeProcs :
        result[p].status = "returned" =>
            LET v == result[p].value IN
            /\ AccumulatedKeys(p) \subseteq DOMAIN v
            /\ v.user_id = cmd[p].node_description.user_id
            /\ v.node_description = cmd[p].node_description
            /\ v.backend_id = v.resolved_node_definition.backend_id
            /\ v.backend_id \in BackendIds
            /\ v.instance_id = CloudInstanceId(v.resolved_node_definition)
            /\ v.instance_id \in cloudhandler_instances
            /\ v.node_id \in 1..uuid_count
            /\ v.node_id # PreExistingInstance.node_id
            /\ v.resolved_node_definition.node_id = v.node_id

\* a CreateNode returned after all five collaborator calls returned
C15_Witness ==
    \E p \in CreateNodeProcs :
        /\ result[p].status = "returned"
        /\ CallReturned(p, "cloudhandler.create_node")
        /\ CallReturned(p, "wait_for_node")


C17_WaitExits ==
    [][\A p \in DOMAIN pc :
         pc[p] = "polling" =>
           /\ pc'[p] # "polling" =>
                \/ /\ result'[p] = Returned(instance_data[p])
                   /\ calls'[p][Len(calls'[p])] =
                        [call |-> "wait_for_node", outcome |-> "returned"]
                \/ /\ raised'[p] \in Raisable("wait_for_node")
                   /\ result'[p] =
                        Raised(perform_except(instance_data[p], raised'[p]))
                   /\ calls'[p][Len(calls'[p])] =
                        [call |-> "wait_for_node", outcome |-> "raised"]
           /\ polls'[p] # polls[p] =>
                /\ pc'[p] = "polling"
                /\ result'[p] = NoResult
                /\ raised'[p] = NoExc]_vars

\* the node has been polled as often as the model allows and the execution
\* is still waiting
C17_Witness ==
    \E p \in CreateNodeProcs :
        /\ pc[p] = "polling"
        /\ polls[p] = MaxPolls
        /\ result[p] = NoResult


\* ---------------------------------------------------------------- C18
DropInfrastructureProcs ==
    {p \in DOMAIN cmd : cmd[p].op = "DropInfrastructure"}

\* C18: DropInfrastructure.perform calls servicecomposer.drop_infrastructure
\* once and makes no other call; its step leaves the instances at the cloud
\* handler, the node registrations at the composer and the records of the
\* store as they were, whether or not the nodes were dropped before.
C18_DropInfrastructureFrame ==
    /\ [](\A p \in DropInfrastructureProcs :
            /\ IsPrefix(CallNames(p), <<"servicecomposer.drop_infrastructure">>)
            /\ pc[p] = "done"
                 => CallNames(p) = <<"servicecomposer.drop_infrastructure">>)
    /\ [][\A p \in DropInfrastructureProcs :
            (pc[p] = "perform" /\ pc'[p] = "done") =>
                /\ cloudhandler_instances' = cloudhandler_instances
                /\ servicecomposer_nodes' = servicecomposer_nodes
                /\ uds_nodes' = uds_nodes
                /\ servicecomposer_infras'
                     \in {servicecomposer_infras,
                          servicecomposer_infras \ {cmd[p].infra_id}}]_vars

\* an infrastructure was dropped while a node of it was still registered
\* and running
C18_Witness ==
    \E p \in DropInfrastructureProcs :
        /\ result[p].status = "returned"
        /\ servicecomposer_nodes # {}
        /\ cloudhandler_instances # {}
        /\ \E r \in uds_nodes : r.infra_id = cmd[p].infra_id


\* ---------------------------------------------------------------- C19
\* the instance cloudhandler.create_node started for unit p
OwnInstanceId(p) == CloudInstanceId(instance_data[p].resolved_node_definition)

\* perform of unit p ended after cloudhandler.create_node had returned
EndedProvisioned(p) ==
    /\ pc[p] = "done"
    /\ CallReturned(p, "cloudhandler.create_node")

InReturnedData(p) ==
    /\ result[p].status = "returned"
    /\ Has(result[p].value, "instance_id")
    /\ result[p].value.instance_id = OwnInstanceId(p)

InCarriedData(p) ==
    /\ EndedWithNodeCreationError(p)
    /\ Has(result[p].exc.instance_data, "instance_id")
    /\ result[p].exc.instance_data.instance_id = OwnInstanceId(p)

InPersistedRecord(p) ==
    \E r \in uds_nodes :
        /\ Has(r.instance_data, "instance_id")
        /\ r.instance_data.instance_id = OwnInstanceId(p)

Recoverable(p) ==
    InReturnedData(p) \/ InCarriedData(p) \/ InPersistedRecord(p)

\* perform of unit p ended with a signal that passed through unwrapped
EndedRaw(p) ==
    /\ result[p].status = "raised"
    /\ result[p].exc.type # "NodeCreationError"

\* C19 as stated: whenever CreateNode.perform ends, by return, by
\* NodeCreationError or by a cancellation signal raised at any point, after
\* cloudhandler.create_node returned, the instance_id is in the returned
\* data, in the data the NodeCreationError carries, or in the persisted
\* record.
C19_Original ==
    \A p \in CreateNodeProcs : EndedProvisioned(p) => Recoverable(p)

\* C19 (amended): when CreateNode.perform ends after cloudhandler.create_node
\* returned, a return has the instance_id in the returned data and a
\* NodeCreationError has it in the data it carries; an execution ended by a
\* cancellation signal has it recoverable exactly when
\* uds.register_started_node had returned before the signal, namely from
\* the persisted record.
C19_RecoverableInstanceId ==
    \A p \in CreateNodeProcs :
        EndedProvisioned(p) =>
            /\ result[p].status = "returned" => InReturnedData(p)
            /\ EndedWithNodeCreationError(p) => InCarriedData(p)
            /\ EndedRaw(p) =>
                 /\ ~InReturnedData(p) /\ ~InCarriedData(p)
                 /\ InPersistedRecord(p)
                      <=> CallReturned(p, "uds.register_started_node")
            /\ CallReturned(p, "uds.register_started_node")
                 => InPersistedRecord(p)

\* the wait was cancelled after the node had been persisted: the record is
\* the one place that holds the instance_id
C19_Witness ==
    \E p \in CreateNodeProcs :
        /\ EndedProvisioned(p)
        /\ result[p] = Raised(KeyboardInterrupt("wait_for_node"))
        /\ InPersistedRecord(p)
        /\ ~InReturnedData(p) /\ ~InCarriedData(p)


\* ---------------------------------------------------------------- C20
\* C20: when the workers are scheduled fairly, no collaborator call fails,
\* no cancellation signal is raised and the broker reports the node ready
\* after finitely many polls, every CreateNode.perform that has been started
\* eventually returns its instance data, instance_id included.
C20_CreateNodeReturns ==
    \A p \in Procs :
        (cmd[p].op = "CreateNode" /\ pc[p] = "perform")
            ~> /\ result[p] = Returned(instance_data[p])
               /\ Has(instance_data[p], "instance_id")
               /\ CallReturned(p, "wait_for_node")

\* a CreateNode returned although its first polls found the node not ready
C20_Witness ==
    \E p \in CreateNodeProcs :
        /\ result[p] = Returned(instance_data[p])
        /\ polls[p] = MaxPolls
        /\ CallReturned(p, "wait_for_node")

====
